---- MODULE Spec2Model ----
(***************************************************************************)
(* Model of src/dashboard_streamlit.py: the MTA Ridership Explorer.        *)
(*                                                                         *)
(* The program is a Streamlit script.  Streamlit executes it from top to   *)
(* bottom on every interaction; one execution is the action Rerun.  The    *)
(* only state that survives an execution is the st.cache_data memo of      *)
(* load_data.  The CSV file the script reads is changed by the environment *)
(* (AppendRow).                                                            *)
(*                                                                         *)
(* Calendar days are integers, day 0 being a Monday, so that d % 7 is the  *)
(* weekday (0 = Monday ... 6 = Sunday) and d + 1 is the next calendar day. *)
(* A table (DataFrame) is the sequence of its rows.                        *)
(***************************************************************************)
EXTENDS Integers, Sequences, FiniteSets, TLC

\* ------------------------------------------------------------------ bounds

\* Longest CSV file (data rows) explored.
MaxRows == 3

\* Largest forecast horizon for which make_future_dataframe is examined.
MaxHorizon == 8

\* ------------------------------------------------------- program constants

\* prep_forecast(df_station, days: int = 7)
DefaultDays == 7

\* Days of a week: resample('W') is anchored weekly.
WeekLen == 7

\* pandas' missing hour: .dt.hour of NaT.
NaN == -1

\* pandas' missing value of a string column (an empty CSV field).
NA == "<NA>"

\* st.selectbox over an empty option list returns None.
None == "<None>"

\* The exceptions an execution of the script can end with.
NoError == "none"
AttributeError == "AttributeError"
TypeError == "TypeError"
IndexError == "IndexError"
ValueError == "ValueError"

\* ------------------------------------------------------------- CSV content

\* A raw timestamp field: a parseable date-time (k = "ok", calendar day d,
\* hour h), an empty field (k = "missing") or text that is no date-time
\* (k = "bad").
RawOk(d, h) == [k |-> "ok", d |-> d, h |-> h]
RawMissing == [k |-> "missing", d |-> 0, h |-> 0]
RawBad == [k |-> "bad", d |-> 0, h |-> 0]

CsvRow(stamp, s, r, p, f) ==
    [transit_timestamp |-> stamp, station_complex |-> s, ridership |-> r,
     payment_method |-> p, fare_class_category |-> f]

\* The rows a CSV file is made of.  Days 5, 6, 7 are a Saturday, a Sunday and
\* the Monday of the next week; the ridership values are distinct powers of
\* two, so that a sum identifies the rows that entered it.
RowPool ==
    { CsvRow(RawOk(5, 0), "A", 1, "omny", "full"),
      CsvRow(RawOk(5, 23), "A", 2, NA, "full"),
      CsvRow(RawOk(7, 0), "A", 4, "omny", "reduced"),
      CsvRow(RawOk(6, 23), "B", 8, "metrocard", NA),
      CsvRow(RawMissing, "A", 16, "omny", "full"),
      CsvRow(RawBad, "B", 32, "metrocard", "full") }

RECURSIVE SeqsUpTo(_, _)
SeqsUpTo(S, n) ==
    IF n = 0 THEN {<<>>}
    ELSE LET shorter == SeqsUpTo(S, n - 1)
         IN shorter \cup {Append(q, x) : q \in {t \in shorter : Len(t) = n - 1}, x \in S}

\* master_df.csv is a data set: it holds at least one row.
Contents == {c \in SeqsUpTo(RowPool, MaxRows) : Len(c) >= 1}

\* ------------------------------------------------------------------- state

VARIABLES
    file,              \* master_df.csv: the data rows of the CSV file
    hasRevCols,        \* the CSV header has payment_method and fare_class_category
    cache,             \* st.cache_data memo of load_data("master_df.csv")
    computed,          \* the last execution ran the body of load_data
    df_master,         \* line 41
    date_range,        \* line 48: what st.sidebar.date_input returned
    filtered,          \* line 54
    selected_station,  \* line 61
    df_station,        \* line 64
    hourly,            \* line 73
    daily,             \* line 82
    weekly,            \* line 83
    ts,                \* line 27: the daily series inside prep_forecast
    forecast,          \* line 37: the dates (ds) of the forecast frame
    rev_df,            \* line 154
    err,               \* the exception that ended the last execution
    at                 \* the section in which the last execution ended

vars == <<file, hasRevCols, cache, computed, df_master, date_range, filtered,
          selected_station, df_station, hourly, daily, weekly, ts, forecast,
          rev_df, err, at>>

\* ------------------------------------------------------------- Data Loader

NaT == [nat |-> TRUE, d |-> 0, h |-> 0]

\* pd.read_csv(..., parse_dates=['transit_timestamp']) on one field: an empty
\* field becomes NaT, a date-time its Timestamp.
parse_dates(stamp) ==
    IF stamp.k = "ok" THEN [nat |-> FALSE, d |-> stamp.d, h |-> stamp.h] ELSE NaT

\* .dt.hour: NaN for NaT.
dt_hour(t) == IF t.nat THEN NaN ELSE t.h

\* read_csv leaves a column that holds a value it cannot parse as it is, of
\* object dtype: the column is then not datetime-like.
datetimelike(content) == \A i \in 1..Len(content) : content[i].transit_timestamp.k # "bad"

read_csv(content) ==
    [i \in 1..Len(content) |->
        [transit_timestamp |-> parse_dates(content[i].transit_timestamp),
         hour |-> dt_hour(parse_dates(content[i].transit_timestamp)),
         station_complex |-> content[i].station_complex,
         ridership |-> content[i].ridership,
         payment_method |-> content[i].payment_method,
         fare_class_category |-> content[i].fare_class_category]]

\* The body of load_data (lines 19-22).  The .dt accessor of line 21 raises
\* AttributeError on a column that is not datetime-like.
load_data(content) ==
    IF datetimelike(content)
    THEN [err |-> NoError, df |-> read_csv(content)]
    ELSE [err |-> AttributeError, df |-> <<>>]

NoEntry == [hit |-> FALSE, value |-> <<>>]

\* cached_load_data that reads the file on every call.
cached_load_data_fresh(memo, content) ==
    LET res == load_data(content)
    IN [err |-> res.err, df |-> res.df, computed |-> TRUE,
        memo |-> IF res.err = NoError THEN [hit |-> TRUE, value |-> res.df] ELSE memo]

\* @st.cache_data (line 18): the memo is keyed by the function and its
\* argument, the path string "master_df.csv", which never changes; the
\* content of the file is no part of the key.  An execution that raises
\* stores nothing.
cached_load_data(memo, content) ==
    IF memo.hit
    THEN [err |-> NoError, df |-> memo.value, computed |-> FALSE, memo |-> memo]
    ELSE LET res == load_data(content)
         IN [err |-> res.err, df |-> res.df, computed |-> TRUE,
             memo |-> IF res.err = NoError
                      THEN [hit |-> TRUE, value |-> res.df]
                      ELSE memo]

\* ----------------------------------------------------------- Filter Engine

SetMin(S) == CHOOSE x \in S : \A y \in S : x <= y
SetMax(S) == CHOOSE x \in S : \A y \in S : x >= y

\* The calendar days (.dt.date) of the rows that have one.
Dates(df) == {df[i].transit_timestamp.d : i \in {j \in 1..Len(df) : ~df[j].transit_timestamp.nat}}

HasNaT(df) == \E i \in 1..Len(df) : df[i].transit_timestamp.nat

\* date_filter with the end of the range excluded.
date_filter_open_end(df, start, end) ==
    SelectSeq(df, LAMBDA r : /\ ~r.transit_timestamp.nat
                             /\ r.transit_timestamp.d >= start
                             /\ r.transit_timestamp.d < end)

\* Lines 54-57.  .dt.date drops the time of day; an elementwise comparison
\* with a missing date (NaT) is False.
date_filter(df, start, end) ==
    SelectSeq(df, LAMBDA r : /\ ~r.transit_timestamp.nat
                             /\ r.transit_timestamp.d >= start
                             /\ r.transit_timestamp.d <= end)

\* Line 64.
station_filter(df, station) ==
    SelectSeq(df, LAMBDA r : r.station_complex = station)

\* Line 60: .unique().tolist(), in order of first appearance.
RECURSIVE unique(_)
unique(col) ==
    IF col = <<>> THEN <<>>
    ELSE LET front == unique(SubSeq(col, 1, Len(col) - 1))
             x == col[Len(col)]
         IN IF \E i \in 1..Len(front) : front[i] = x THEN front ELSE Append(front, x)

station_column(df) == [i \in 1..Len(df) |-> df[i].station_complex]

\* -------------------------------------------------------------- Aggregator

\* ['ridership'].sum() of a table.
RECURSIVE sum_ridership(_)
sum_ridership(df) ==
    IF df = <<>> THEN 0
    ELSE df[Len(df)].ridership + sum_ridership(SubSeq(df, 1, Len(df) - 1))

\* The keys of a group-by, in ascending order.
RECURSIVE sorted(_)
sorted(S) ==
    IF S = {} THEN <<>>
    ELSE <<SetMin(S)>> \o sorted(S \ {SetMin(S)})

\* Line 73: groupby('hour')['ridership'].sum().reset_index().  One bucket per
\* hour that occurs; groupby leaves out the rows whose key is missing.
groupby_hour(df) ==
    LET keys == sorted({df[i].hour : i \in 1..Len(df)} \ {NaN})
    IN [k \in 1..Len(keys) |->
           [hour |-> keys[k],
            ridership |-> sum_ridership(SelectSeq(df, LAMBDA r : r.hour = keys[k]))]]

\* The rows whose timestamp falls in the days lo..hi (of any time of day).
rows_between(df, lo, hi) ==
    SelectSeq(df, LAMBDA r : /\ ~r.transit_timestamp.nat
                             /\ r.transit_timestamp.d >= lo
                             /\ r.transit_timestamp.d <= hi)

\* resample_D with the last day's bin left out (a half-open range of bins).
resample_D_open(df) ==
    IF Dates(df) = {} THEN <<>>
    ELSE LET first == SetMin(Dates(df))
             last == SetMax(Dates(df))
         IN [i \in 1..(last - first) |->
                [transit_timestamp |-> first + i - 1,
                 ridership |-> sum_ridership(rows_between(df, first + i - 1, first + i - 1))]]

\* resample_D with a bin for the observed days only (no bin for a day without
\* rows).
resample_D_observed(df) ==
    LET days == sorted(Dates(df))
    IN [i \in 1..Len(days) |->
           [transit_timestamp |-> days[i],
            ridership |-> sum_ridership(rows_between(df, days[i], days[i]))]]

\* Lines 30 and 82: set_index('transit_timestamp')['ridership']
\* .resample('D').sum().reset_index().  The bins are the calendar days from
\* the first timestamp's day to the last one's, each [00:00, 24:00); the sum
\* of a bin without rows is 0.  An empty table gives an empty result.
resample_D(df) ==
    IF Dates(df) = {} THEN <<>>
    ELSE LET first == SetMin(Dates(df))
             last == SetMax(Dates(df))
         IN [i \in 1..(last - first + 1) |->
                [transit_timestamp |-> first + i - 1,
                 ridership |-> sum_ridership(rows_between(df, first + i - 1, first + i - 1))]]

\* week_label anchored on Saturday (W-SAT): the Saturday on or after day d.
week_label_sat(d) == d + (((WeekLen - 2) - (d % WeekLen)) % WeekLen)

\* The offset 'W' is W-SUN: the Sunday on or after day d.
week_label(d) == d + ((WeekLen - 1) - (d % WeekLen))

\* Line 83: .resample('W').sum().reset_index().  Weekly bins are closed and
\* labelled on the right: the bin labelled by Sunday L holds the timestamps
\* after the end of the Sunday before up to the end of L, that is the days
\* L-6 (a Monday) to L.  The bins run from the first timestamp's week to the
\* last one's.
resample_W(df) ==
    IF Dates(df) = {} THEN <<>>
    ELSE LET first == week_label(SetMin(Dates(df)))
             last == week_label(SetMax(Dates(df)))
         IN [i \in 1..((last - first) \div WeekLen + 1) |->
                LET label == first + (i - 1) * WeekLen
                IN [transit_timestamp |-> label,
                    ridership |-> sum_ridership(
                        rows_between(df, label - (WeekLen - 1), label))]]

\* groupby_payment_fare with dropna=False: a missing value is a key.
groupby_payment_fare_keepna(df) ==
    LET keys == {<<df[i].payment_method, df[i].fare_class_category>> : i \in 1..Len(df)}
    IN { [payment_method |-> k[1], fare_class_category |-> k[2],
          revenue |-> sum_ridership(SelectSeq(df,
                          LAMBDA r : r.payment_method = k[1] /\ r.fare_class_category = k[2]))]
         : k \in keys }

\* Lines 154-157: groupby(['payment_method', 'fare_class_category'])
\* ['ridership'].sum().reset_index(name='revenue').  groupby's default is
\* dropna=True: a row with a missing value in a key column is in no group.
groupby_payment_fare(df) ==
    LET kept == SelectSeq(df, LAMBDA r : r.payment_method # NA /\ r.fare_class_category # NA)
        keys == {<<kept[i].payment_method, kept[i].fare_class_category>> : i \in 1..Len(kept)}
    IN { [payment_method |-> k[1], fare_class_category |-> k[2],
          revenue |-> sum_ridership(SelectSeq(kept,
                          LAMBDA r : r.payment_method = k[1] /\ r.fare_class_category = k[2]))]
         : k \in keys }

\* -------------------------------------------------------------- Forecaster

\* Lines 27-33: the daily series, columns renamed to ds and y.
daily_series(df) ==
    LET d == resample_D(df)
    IN [i \in 1..Len(d) |-> [ds |-> d[i].transit_timestamp, y |-> d[i].ridership]]

\* fit_raises with the minimum one row too low.
fit_raises_empty(series) == Len(series) < 1

\* Prophet.fit (line 35) raises ValueError('Dataframe has less than 2 non-NaN
\* rows.') on a history of fewer than 2 rows.
fit_raises(series) == Len(series) < 2

\* make_future_dataframe whose future dates start at the last date itself.
make_future_dataframe_from_last(series, periods) ==
    LET last_date == series[Len(series)].ds
    IN [i \in 1..Len(series) |-> series[i].ds] \o [i \in 1..periods |-> last_date + i - 1]

\* Prophet.make_future_dataframe(periods) (line 36), frequency 'D', history
\* included: the history's dates, then the `periods` days after the last one.
make_future_dataframe(series, periods) ==
    LET last_date == series[Len(series)].ds
    IN [i \in 1..Len(series) |-> series[i].ds] \o [i \in 1..periods |-> last_date + i]

\* prep_forecast (lines 26-38).  predict returns one row for each date of the
\* frame it is given; the predicted values (yhat) are left out of the model.
prep_forecast(df, days) ==
    LET series == daily_series(df)
    IN IF fit_raises(series)
       THEN [err |-> ValueError, ts |-> series, forecast |-> <<>>]
       ELSE [err |-> NoError, ts |-> series,
             forecast |-> make_future_dataframe(series, days)]

\* -------------------------------------------------------------- the script

\* What an execution leaves behind when it ends in section `where` with
\* exception `e`: only what `got` names was computed.
Blank ==
    [df_master |-> <<>>, date_range |-> <<>>, filtered |-> <<>>,
     selected_station |-> None, df_station |-> <<>>, hourly |-> <<>>,
     daily |-> <<>>, weekly |-> <<>>, ts |-> <<>>, forecast |-> <<>>,
     rev_df |-> {}, err |-> NoError, at |-> "init"]

\* Lines 44-51.  min() and max() of the object column of dates: on the
\* builds where the reduction compares the dates with the fill value of the
\* missing ones it raises TypeError (strictMin); on the others the missing
\* dates are skipped, and a column of missing dates only has no minimum, which
\* st.date_input rejects.
dates_error(df, strictMin) ==
    IF HasNaT(df) /\ strictMin THEN TypeError
    ELSE IF Dates(df) = {} THEN "StreamlitAPIException"
    ELSE NoError

\* What st.sidebar.date_input (line 48) can return: a tuple of 0, 1 or 2
\* dates between min_value and max_value.  The script uses the pair as it
\* comes.
date_inputs(df) == SeqsUpTo(SetMin(Dates(df))..SetMax(Dates(df)), 2)

\* station_part that takes the station's rows from the table of line 41
\* instead of the date-filtered one.
station_part_master(run, pick) ==
    LET sub == station_filter(run.df_master, pick)
    IN [run EXCEPT !.selected_station = pick,
                   !.df_station = sub,
                   !.hourly = groupby_hour(sub),
                   !.daily = resample_D(sub),
                   !.weekly = resample_W(sub)]

\* Lines 60-95: the station subset and its time-based aggregates.
station_part(run, pick) ==
    LET sub == station_filter(run.filtered, pick)
    IN [run EXCEPT !.selected_station = pick,
                   !.df_station = sub,
                   !.hourly = groupby_hour(sub),
                   !.daily = resample_D(sub),
                   !.weekly = resample_W(sub)]

\* Lines 101-169.  The mean of the coordinates of an empty subset is NaN,
\* which folium.Map refuses on the builds that validate the location
\* (strictMap).  The borough tabs (lines 124-148) and the scatter sample
\* (lines 174-180) only draw charts of `filtered` and df_station and leave no
\* value behind; they are reached only after prep_forecast has returned.
display_part(run, revcols, strictMap) ==
    IF run.df_station = <<>> /\ strictMap
    THEN [run EXCEPT !.err = ValueError, !.at = "map"]
    ELSE LET fc == prep_forecast(run.df_station, DefaultDays)
         IN IF fc.err # NoError
            THEN [run EXCEPT !.ts = fc.ts, !.err = fc.err, !.at = "prep_forecast"]
            ELSE [run EXCEPT !.ts = fc.ts,
                             !.forecast = fc.forecast,
                             !.rev_df = IF revcols
                                        THEN groupby_payment_fare(run.df_station)
                                        ELSE {},
                             !.at = "end"]

\* The picks st.sidebar.selectbox (line 61) offers: the options, or None when
\* there is none.
station_options(df) ==
    LET stations == unique(station_column(df))
    IN IF stations = <<>> THEN {None} ELSE {stations[i] : i \in 1..Len(stations)}

\* One execution of the script on table df with the widget values dr and
\* pick.
script(df, revcols, dr, pick, strictMin, strictMap) ==
    LET loaded == [Blank EXCEPT !.df_master = df]
    IN IF dates_error(df, strictMin) = TypeError
       THEN [loaded EXCEPT !.err = TypeError, !.at = "min_date"]
       ELSE IF dates_error(df, strictMin) # NoError
       THEN [loaded EXCEPT !.err = dates_error(df, strictMin), !.at = "date_input"]
       ELSE IF Len(dr) < 2
       THEN [loaded EXCEPT !.date_range = dr, !.err = IndexError, !.at = "filter"]
       ELSE display_part(
                station_part([loaded EXCEPT !.date_range = dr,
                                            !.filtered = date_filter(df, dr[1], dr[2])],
                             pick),
                revcols, strictMap)

\* The widget values and the builds an execution on df can meet.  A choice
\* that the execution never reads is not enumerated.
min_builds(df) == IF HasNaT(df) THEN BOOLEAN ELSE {TRUE}

range_values(df, strictMin) ==
    IF dates_error(df, strictMin) # NoError THEN {<<>>} ELSE date_inputs(df)

station_values(df, dr) ==
    IF Len(dr) < 2 THEN {None} ELSE station_options(date_filter(df, dr[1], dr[2]))

map_builds(pick) == IF pick = None THEN BOOLEAN ELSE {TRUE}

\* ----------------------------------------------------------------- actions

Init ==
    /\ file \in Contents
    /\ hasRevCols \in BOOLEAN
    /\ cache = NoEntry
    /\ computed = FALSE
    /\ df_master = Blank.df_master
    /\ date_range = Blank.date_range
    /\ filtered = Blank.filtered
    /\ selected_station = Blank.selected_station
    /\ df_station = Blank.df_station
    /\ hourly = Blank.hourly
    /\ daily = Blank.daily
    /\ weekly = Blank.weekly
    /\ ts = Blank.ts
    /\ forecast = Blank.forecast
    /\ rev_df = Blank.rev_df
    /\ err = Blank.err
    /\ at = Blank.at

Publish(run) ==
    /\ df_master' = run.df_master
    /\ date_range' = run.date_range
    /\ filtered' = run.filtered
    /\ selected_station' = run.selected_station
    /\ df_station' = run.df_station
    /\ hourly' = run.hourly
    /\ daily' = run.daily
    /\ weekly' = run.weekly
    /\ ts' = run.ts
    /\ forecast' = run.forecast
    /\ rev_df' = run.rev_df
    /\ err' = run.err
    /\ at' = run.at

\* Streamlit executes the script: line 41 first, through the memo.
Rerun ==
    LET loaded == cached_load_data(cache, file)
    IN /\ cache' = loaded.memo
       /\ computed' = loaded.computed
       /\ UNCHANGED <<file, hasRevCols>>
       /\ IF loaded.err # NoError
          THEN Publish([Blank EXCEPT !.err = loaded.err, !.at = "load_data"])
          ELSE \E strictMin \in min_builds(loaded.df) :
               \E dr \in range_values(loaded.df, strictMin) :
               \E pick \in station_values(loaded.df, dr) :
               \E strictMap \in map_builds(pick) :
                  Publish(script(loaded.df, hasRevCols, dr, pick, strictMin, strictMap))

\* The data source grows: a row is appended to master_df.csv.
AppendRow ==
    /\ Len(file) < MaxRows
    /\ \E r \in RowPool : file' = Append(file, r)
    /\ UNCHANGED <<hasRevCols, cache, computed, df_master, date_range, filtered,
                   selected_station, df_station, hourly, daily, weekly, ts,
                   forecast, rev_df, err, at>>

Next == Rerun \/ AppendRow

Spec == Init /\ [][Next]_vars

\* ------------------------------------------------------------------ claims

\* The days and stations that occur in a CSV file.
AllDays == {r.transit_timestamp.d : r \in {q \in RowPool : q.transit_timestamp.k = "ok"}}
AllStations == {r.station_complex : r \in RowPool}

\* The last execution computed the station subset and its aggregates
\* (lines 54-95).
Aggregated == at \in {"map", "prep_forecast", "end"}

\* The last execution called prep_forecast (line 112).
Forecasting == at \in {"prep_forecast", "end"}

\* The sum of the ridership column of a table or of an aggregate.
RECURSIVE Total(_)
Total(rows) == IF rows = <<>> THEN 0 ELSE rows[1].ridership + Total(Tail(rows))

\* The number of times row r occurs in a table.
Count(df, r) == Cardinality({i \in 1..Len(df) : df[i] = r})

Range(q) == {q[i] : i \in 1..Len(q)}

\* C1: each time-based aggregate of the station subset conserves ridership:
\* the values of the hourly group-by, of the daily resample and of the weekly
\* resample each add up to the ridership of all records of df_station.
C1_Conservation ==
    Aggregated =>
        /\ Total(hourly) = Total(df_station)
        /\ Total(daily) = Total(df_station)
        /\ Total(weekly) = Total(df_station)

\* C1's case: a station subset of several records that fall in several hours,
\* days and weeks.
C1_Witness ==
    /\ Aggregated
    /\ Len(df_station) >= 2
    /\ Len(hourly) >= 2
    /\ Len(daily) >= 2
    /\ Len(weekly) >= 2
    /\ Total(daily) = Total(df_station)

\* ISO weeks are numbered from the week of day 0, a Monday.
IsoWeek(d) == d \div WeekLen
IsoWeeks == 0..(IsoWeek(SetMax(AllDays)) + 1)

InWeek(agg, w) == SelectSeq(agg, LAMBDA b : IsoWeek(b.transit_timestamp) = w)

\* C2: for every ISO week (Monday to Sunday), the daily values whose day falls
\* in the week add up to the weekly value of that week; a week with a daily
\* value has exactly one weekly value.
C2_DailySumsToWeekly ==
    Aggregated =>
        \A w \in IsoWeeks :
            /\ Total(InWeek(daily, w)) = Total(InWeek(weekly, w))
            /\ Len(InWeek(weekly, w)) = IF InWeek(daily, w) = <<>> THEN 0 ELSE 1

\* C2's case: a Sunday's ridership, late in the day, in the weekly value of
\* the week it ends.
C2_Witness ==
    /\ Aggregated
    /\ \E i \in 1..Len(df_station) :
          /\ df_station[i].transit_timestamp.d % WeekLen = WeekLen - 1
          /\ df_station[i].transit_timestamp.h > 0
    /\ \E w \in IsoWeeks : Total(InWeek(weekly, w)) > 0
                           /\ Total(InWeek(daily, w)) = Total(InWeek(weekly, w))

\* C3: the date-range filter and the station filter commute: on the loaded
\* table both orders give the same records for every range and station, and
\* the station subset the script builds (date range first) is the one the
\* other order gives.
C3_FiltersCommute ==
    /\ at \notin {"init", "load_data"} =>
          \A s \in AllDays, e \in AllDays, v \in AllStations :
              station_filter(date_filter(df_master, s, e), v)
                  = date_filter(station_filter(df_master, v), s, e)
    /\ Aggregated =>
          df_station = date_filter(station_filter(df_master, selected_station),
                                   date_range[1], date_range[2])

\* C3's case: each of the two filters removes records of the loaded table.
C3_Witness ==
    /\ Aggregated
    /\ df_station # <<>>
    /\ Len(df_station) < Len(filtered)
    /\ Len(filtered) < Len(df_master)
    /\ Len(station_filter(df_master, selected_station)) > Len(df_station)

SeriesDates(series) == {series[i].ds : i \in 1..Len(series)}

StrictlyIncreasing(q) == \A i \in 1..(Len(q) - 1) : q[i] < q[i + 1]

\* The ridership of the records of df on day d.
DayTotal(df, d) ==
    Total(SelectSeq(df, LAMBDA r : ~r.transit_timestamp.nat /\ r.transit_timestamp.d = d))

\* C4 as the specification states it: the daily series of prep_forecast has a
\* point for exactly the days that have a record, none for a day without, so
\* that it is no longer than the number of distinct days.
C4_Original ==
    Forecasting =>
        /\ SeriesDates(ts) = Dates(df_station)
        /\ Len(ts) <= Cardinality(Dates(df_station))
        /\ StrictlyIncreasing([i \in 1..Len(ts) |-> ts[i].ds])

\* C4, amended: the daily series has exactly one point for each calendar day
\* from the first to the last day with a record, a day without records in
\* between included, with value 0; its dates are strictly increasing and its
\* length is the number of days from the first to the last, at least the
\* number of distinct days with a record.
C4_GapFilled ==
    Forecasting =>
        /\ StrictlyIncreasing([i \in 1..Len(ts) |-> ts[i].ds])
        /\ SeriesDates(ts) = IF Dates(df_station) = {} THEN {}
                             ELSE SetMin(Dates(df_station))..SetMax(Dates(df_station))
        /\ Len(ts) = Cardinality(SeriesDates(ts))
        /\ Len(ts) >= Cardinality(Dates(df_station))
        /\ \A i \in 1..Len(ts) : ts[i].y = DayTotal(df_station, ts[i].ds)

\* C4's case: a series with a point of value 0 for a day without records.
C4_Witness ==
    /\ Forecasting
    /\ \E i \in 1..Len(ts) : ts[i].ds \notin Dates(df_station) /\ ts[i].y = 0
    /\ Len(ts) > Cardinality(Dates(df_station))

\* The dates of a forecast frame for a series and a horizon: the history's
\* dates, then h dates, the first the day after the last observed date, each
\* next one a day later.
ForecastShape(frame, series, h) ==
    /\ Len(frame) = Len(series) + h
    /\ StrictlyIncreasing(frame)
    /\ \A i \in 1..Len(series) : frame[i] = series[i].ds
    /\ \A i \in 1..h : frame[Len(series) + i] = SetMax(Dates(df_station)) + i

\* C5: for a series of at least 2 points the forecast frame of the script
\* (horizon 7), and the frame make_future_dataframe builds for every horizon
\* from 0 to MaxHorizon, is the history's dates followed by exactly that many
\* future dates, one calendar day apart, starting the day after the last
\* observed date, in strictly increasing order.
C5_ForecastDates ==
    (Forecasting /\ Len(ts) >= 2) =>
        /\ at = "end"
        /\ ForecastShape(forecast, ts, DefaultDays)
        /\ \A h \in 0..MaxHorizon :
              ForecastShape(make_future_dataframe(ts, h), ts, h)

\* C5's case: a forecast of a series of several days.
C5_Witness ==
    /\ at = "end"
    /\ Len(ts) >= 2
    /\ Len(forecast) = Len(ts) + DefaultDays
    /\ forecast[Len(forecast)] = SetMax(Dates(df_station)) + DefaultDays

\* C6: when the series has fewer than 2 points (that of an empty station
\* subset included), prep_forecast fails in fit and no forecast is returned or
\* displayed; an execution that does not reach its end displays no forecast.
\* The error is Prophet's ValueError.
C6_NoForecastOnShortSeries ==
    /\ (Forecasting /\ Len(ts) < 2) =>
          /\ at = "prep_forecast"
          /\ err = ValueError
          /\ forecast = <<>>
    /\ (Aggregated /\ Cardinality(Dates(df_station)) < 2) =>
          /\ at # "end"
          /\ err = ValueError
          /\ forecast = <<>>
    /\ at # "end" => forecast = <<>>

\* C6's case: prep_forecast called on a station subset of a single day.
C6_Witness ==
    /\ at = "prep_forecast"
    /\ Len(ts) = 1
    /\ df_station # <<>>
    /\ err = ValueError
    /\ forecast = <<>>

\* The sum of the revenue of a set of buckets.
RECURSIVE Revenue(_)
Revenue(buckets) ==
    IF buckets = {} THEN 0
    ELSE LET b == CHOOSE x \in buckets : TRUE
         IN b.revenue + Revenue(buckets \ {b})

\* The execution computed the breakdown of lines 153-157.
Breakdown == at = "end" /\ hasRevCols

KeyOf(r) == <<r.payment_method, r.fare_class_category>>
BucketsOf(r) == {b \in rev_df : KeyOf(b) = KeyOf(r)}
Complete(r) == r.payment_method # NA /\ r.fare_class_category # NA

\* C7 as the specification states it: a record with a missing value in a
\* grouping column is not excluded, the missing value is a bucket key, and
\* every record of the station subset adds its ridership to exactly one
\* bucket.
C7_Original ==
    Breakdown =>
        /\ \A i \in 1..Len(df_station) : Cardinality(BucketsOf(df_station[i])) = 1
        /\ Revenue(rev_df) = Total(df_station)

\* C7, amended: a record with a missing value in a grouping column is
\* excluded; no bucket has a missing key; every record whose two grouping
\* values are present adds its ridership to exactly one bucket, that of its
\* pair of values, and the buckets hold nothing else.
C7_NullKeysDropped ==
    Breakdown =>
        /\ \A b \in rev_df : Complete(b)
        /\ \A i \in 1..Len(df_station) :
              Cardinality(BucketsOf(df_station[i]))
                  = IF Complete(df_station[i]) THEN 1 ELSE 0
        /\ \A b \in rev_df :
              b.revenue = Total(SelectSeq(df_station, LAMBDA r : KeyOf(r) = KeyOf(b)))
        /\ Revenue(rev_df) = Total(SelectSeq(df_station, Complete))

\* C7's case: a breakdown of a station subset that holds a record without
\* payment method beside complete records.
C7_Witness ==
    /\ Breakdown
    /\ rev_df # {}
    /\ \E i \in 1..Len(df_station) : df_station[i].payment_method = NA
    /\ Revenue(rev_df) < Total(df_station)

\* C8 as the specification states it, for an execution of the script (a step
\* that leaves the file as it is): with content unchanged since it was cached
\* the cached table is returned without recomputing, and otherwise the table
\* returned is built from the content the file has now.
C8_Original ==
    [][file' = file =>
          /\ (cache.hit /\ cache.value = read_csv(file)) => ~computed'
          /\ df_master' = load_data(file).df
          /\ (at' = "load_data") = (load_data(file).err # NoError)]_vars

\* C8, amended: a load call with the same source returns the cached table
\* without recomputing, whether or not the content of the source has changed
\* since (the memo is keyed by the path only, so a change of content does not
\* invalidate it); the file is read only when no table is cached, and a table
\* that loads is cached then.
C8_CachedByPath ==
    [][file' = file =>
          IF cache.hit
          THEN /\ ~computed'
               /\ cache' = cache
               /\ df_master' = cache.value
               /\ at' # "load_data"
          ELSE /\ computed'
               /\ df_master' = load_data(file).df
               /\ (at' = "load_data") = (load_data(file).err # NoError)
               /\ cache'.hit = (load_data(file).err = NoError)
               /\ cache'.value = load_data(file).df]_vars

\* C8's case: an execution after the file has changed, served the table
\* cached from the earlier content.
C8_Witness ==
    /\ cache.hit
    /\ ~computed
    /\ at = "end"
    /\ df_master = cache.value
    /\ datetimelike(file)
    /\ df_master # read_csv(file)

\* C9 as the specification states it: after an execution, the load has
\* succeeded, no record with a missing or unparseable timestamp is in the
\* loader's table, a table read from the present file holds its other records,
\* and no such record is in the station subset.
C9_DroppedAtLoad ==
    at # "init" =>
        /\ at # "load_data"
        /\ \A i \in 1..Len(df_master) : ~df_master[i].transit_timestamp.nat
        /\ computed => Len(df_master)
               = Len(SelectSeq(file, LAMBDA r : r.transit_timestamp.k = "ok"))
        /\ \A i \in 1..Len(df_station) : ~df_station[i].transit_timestamp.nat

\* The execution evaluated the date-range filter with a pair of dates.
Filtered == Aggregated /\ Len(date_range) = 2

InRange(r) ==
    /\ ~r.transit_timestamp.nat
    /\ date_range[1] <= r.transit_timestamp.d
    /\ r.transit_timestamp.d <= date_range[2]

Exact ==
    /\ Range(filtered) \subseteq Range(df_master)
    /\ \A r \in Range(df_master) :
          Count(filtered, r) = IF InRange(r) THEN Count(df_master, r) ELSE 0

\* C10 as the specification states it: with start > end the filter fails with
\* RangeError; with start <= end it returns exactly the records whose
\* calendar date is in the range, both ends included.
C10_Original ==
    /\ (at \notin {"init", "load_data", "min_date", "date_input"}
            /\ Len(date_range) = 2 /\ date_range[1] > date_range[2]) =>
          (at = "filter" /\ err = "RangeError")
    /\ (Filtered /\ date_range[1] <= date_range[2]) => Exact

\* C10, amended: the date-range filter never fails on a pair of dates: with
\* start > end it returns the empty subset, and with start <= end exactly the
\* records whose calendar date d has start <= d <= end, both ends included,
\* whatever the time of day.
C10_EmptyOnReversedRange ==
    /\ (at \notin {"init", "load_data", "min_date", "date_input"} /\ Len(date_range) = 2) =>
          (Filtered /\ at # "filter" /\ err # "RangeError")
    /\ Filtered => Exact
    /\ (Filtered /\ date_range[1] > date_range[2]) => filtered = <<>>

\* C10's case: a reversed range over a table that has records.
C10_Witness ==
    /\ Filtered
    /\ date_range[1] > date_range[2]
    /\ df_master # <<>>
    /\ filtered = <<>>

====
